---- MODULE Spec2Model ----
(***************************************************************************)
(* Model of tm_importer.py: the import of a flat list of entity records    *)
(* into an IoT TwinMaker workspace.  One process runs the orchestrator     *)
(* create_iottwinmaker_entities; the remote service activates what was     *)
(* created asynchronously.  Every remote call the code issues is appended  *)
(* to log, together with what the service held at that moment.             *)
(***************************************************************************)
EXTENDS Integers, Sequences, FiniteSets, TLC

\* ---------------------------------------------------------------- bounds
MaxRecords == 2        \* length of the "entities" list of the job's JSON
MaxPreexisting == 1    \* entities the workspace holds before the first run
MaxDepth == 3          \* nested create_iottwinmaker_entity calls the interpreter allows
MaxRuns == 2           \* imports of the same input, one after the other

\* ---------------------------------------------------------------- values
NONE == "None"                  \* Python's None (an absent key of a record)
Ids == {"a", "b", "c"}          \* entity ids
CompIds == {"T1", "T2"}         \* component type ids
States == {"ABSENT", "CREATING", "ACTIVE"}

\* An EntityRecord of the input: the keys the resolver reads.
Records == [entity_id : Ids, parent_entity_id : Ids \cup {NONE}, component_type : {NONE, "T2"}]

VARIABLES
    input,                    \* j_data["entities"]
    defaultComp,              \* the job-level componentTypeId
    wsExists, bucketExists,   \* remote: the workspace and its bucket
    ctState,                  \* remote: state of each component type
    entState,                 \* remote: state of each entity
    created_component_types,  \* cache (line 25), as the set of its keys
    created_entities,         \* cache (line 26), as the set of its keys
    pc,                       \* position of create_iottwinmaker_entities
    idx,                      \* position of the loop of process_records
    stack,                    \* the calls in progress below the orchestrator
    log,                      \* remote calls issued by the current run, in order
    initial,                  \* the entities the service held when the run began
    run                       \* number of the current run

vars == <<input, defaultComp, wsExists, bucketExists, ctState, entState,
          created_component_types, created_entities, pc, idx, stack, log,
          initial, run>>

job == <<input, defaultComp, initial>>
remote == <<wsExists, bucketExists, ctState, entState>>
caches == <<created_component_types, created_entities>>

\* ---------------------------------------------------------------- log
\* One remote call.  id: the resource named; parent, owner, ctype: what a
\* create_entity call carried (owner: the record whose payload was sent);
\* found: the answer of an existence or list call; pstate, cstate: the state of
\* the parent and of the payload's component type when the call was issued.
\* Of a create_entity call also: rec, the record it was built from (0 for a
\* synthesized root); waited, the check_active it was issued with; nested,
\* whether it was issued while resolving the parent of another record.
Call(op, id) ==
    [op |-> op, id |-> id, parent |-> NONE, owner |-> 0, ctype |-> NONE,
     found |-> FALSE, pstate |-> NONE, cstate |-> NONE,
     rec |-> 0, waited |-> FALSE, nested |-> FALSE]

\* ---------------------------------------------------------------- stack
\* A component payload (lines 117-122): the record whose properties it carries
\* and the component type it names.  NoComps is a payload that tests false.
NoComps == [owner |-> 0, componentTypeId |-> NONE]
Truthy(comps) == comps.owner # 0

\* The arguments of a create_entity call (lines 150-155 and 186-190).
NoNtt == [entityId |-> NONE, parentEntityId |-> NONE]

\* A call in progress: the function, its position, its arguments.  pre: the
\* entities the service held when the call was entered; mark: the number of
\* remote calls the run had issued by then.
Frame(fn, at) ==
    [fn |-> fn, pc |-> at, rec |-> 0, comps |-> NoComps, check_active |-> FALSE,
     comp_id |-> NONE, ntt |-> NoNtt, pre |-> {}, mark |-> 0]

Top == stack[Len(stack)]
Running == pc \notin {"done", "failed"}
InFrame(fn, at) == Running /\ Len(stack) > 0 /\ Top.fn = fn /\ Top.pc = at
Pop == SubSeq(stack, 1, Len(stack) - 1)
SetTop(f) == [stack EXCEPT ![Len(stack)] = f]
Goto(at) == SetTop([Top EXCEPT !.pc = at])
PushOver(at, f) == Append(Goto(at), f)

\* ---------------------------------------------------------------- Init
Existing(st) == {e \in DOMAIN st : st[e] # "ABSENT"}

\* The ids a job names: only their remote state is ever read by its runs.
NamedIds(entities) ==
    {entities[i].entity_id : i \in 1..Len(entities)}
        \cup ({entities[i].parent_entity_id : i \in 1..Len(entities)} \ {NONE})
\* Entity ids are opaque keys, compared for equality only, so an input stands
\* for all its renamings: the one kept names the ids a, b, c in the order in
\* which the list first mentions them.
Rank == [e \in Ids |-> IF e = "a" THEN 1 ELSE IF e = "b" THEN 2 ELSE 3]
Mentions(entities) ==
    [k \in 1..(2 * Len(entities)) |->
        IF k % 2 = 1 THEN entities[(k + 1) \div 2].entity_id
        ELSE entities[k \div 2].parent_entity_id]
InOrderOfMention(entities) ==
    LET m == Mentions(entities) IN
    \A k \in DOMAIN m : m[k] # NONE =>
        \A x \in Ids : Rank[x] < Rank[m[k]] => \E j \in 1..(k - 1) : m[j] = x

NamedComps(entities, comp_id) ==
    ({entities[i].component_type : i \in 1..Len(entities)} \cup {comp_id}) \ {NONE}

\* The state a first run starts in, for a job whose input is already chosen.
InitRest ==
    /\ defaultComp \in {NONE, "T1"}
    /\ wsExists \in BOOLEAN
    /\ bucketExists \in BOOLEAN
    /\ wsExists => bucketExists
    /\ ctState \in [CompIds -> States]
    /\ entState \in [Ids -> States]
    /\ Cardinality(Existing(entState)) <= MaxPreexisting
    /\ ~wsExists => Existing(ctState) = {} /\ Existing(entState) = {}
    /\ Existing(entState) \subseteq NamedIds(input)
    /\ Existing(ctState) \subseteq NamedComps(input, defaultComp)
    /\ created_component_types = {}
    /\ created_entities = {}
    /\ pc = "create_workspace"
    /\ idx = 1
    /\ stack = <<>>
    /\ log = <<>>
    /\ initial = Existing(entState)
    /\ run = 1

Init ==
    /\ input \in UNION {[1..n -> Records] : n \in 0..MaxRecords}
    /\ InOrderOfMention(input)
    /\ InitRest

\* The chain scenario: records c (parent b), b (parent a) and a, in this
\* order, with any component types.
ChainInputs ==
    {inp \in [1..3 -> Records] :
        /\ inp[1].entity_id = "c" /\ inp[1].parent_entity_id = "b"
        /\ inp[2].entity_id = "b" /\ inp[2].parent_entity_id = "a"
        /\ inp[3].entity_id = "a" /\ inp[3].parent_entity_id = NONE}

InitChain ==
    /\ input \in ChainInputs
    /\ InitRest

\* A job whose input names the entity b twice, with whatever attributes, below
\* a record that has b as its parent.
DuplicateInputs ==
    {inp \in [1..3 -> Records] :
        /\ inp[1].entity_id = "a" /\ inp[1].parent_entity_id = "b"
        /\ inp[2].entity_id = "b" /\ inp[2].parent_entity_id \in {NONE, "c"}
        /\ inp[3].entity_id = "b" /\ inp[3].parent_entity_id \in {NONE, "c"}}

InitDuplicates ==
    /\ input \in DuplicateInputs
    /\ InitRest

\* ------------------------------------------------- create_workspace (92-110)
\* Variant: the function returns after the list call whatever it found.
ListWorkspaces_ReturnsAlways ==
    /\ pc = "create_workspace"
    /\ log' = Append(log, [Call("list_workspaces", "ws") EXCEPT !.found = wsExists])
    /\ pc' = "create_properties_component"
    /\ UNCHANGED <<job, remote, caches, idx, stack, run>>

\* Variant: a listed workspace that matches does not end the function.
ListWorkspaces_IgnoresMatch ==
    /\ pc = "create_workspace"
    /\ log' = Append(log, [Call("list_workspaces", "ws") EXCEPT !.found = wsExists])
    /\ pc' = "create_bucket"
    /\ UNCHANGED <<job, remote, caches, idx, stack, run>>

\* Lines 93-97.
ListWorkspaces ==
    /\ pc = "create_workspace"
    /\ log' = Append(log, [Call("list_workspaces", "ws") EXCEPT !.found = wsExists])
    /\ pc' = IF wsExists THEN "create_properties_component" ELSE "create_bucket"
    /\ UNCHANGED <<job, remote, caches, idx, stack, run>>

CreateBucket ==
    /\ pc = "create_bucket"
    /\ bucketExists' = TRUE
    /\ log' = Append(log, Call("create_bucket", "ws"))
    /\ pc' = "bucket_exists"
    /\ UNCHANGED <<job, wsExists, ctState, entState, caches, idx, stack, run>>

WaitBucket ==
    /\ pc = "bucket_exists"
    /\ bucketExists
    /\ log' = Append(log, [Call("bucket_exists", "ws") EXCEPT !.found = TRUE])
    /\ pc' = "create_workspace_api"
    /\ UNCHANGED <<job, remote, caches, idx, stack, run>>

CreateWorkspace ==
    /\ pc = "create_workspace_api"
    /\ wsExists' = TRUE
    /\ log' = Append(log, Call("create_workspace", "ws"))
    /\ pc' = "create_properties_component"
    /\ UNCHANGED <<job, bucketExists, ctState, entState, caches, idx, stack, run>>

\* ------------------------------------------------------ wait_over (library)
\* The Activation Waiter polls until the status field equals the target and
\* then returns: a call of it returns in the states where this holds.
wait_over(state, target) == state = target

\* -------------------------------------- create_properties_component (58-89)
\* Variant: the cache is not consulted (lines 59-61 left out).
CpcStart_NoCache ==
    /\ InFrame("create_properties_component", "start")
    /\ LET t == Top.comp_id IN
       IF t = NONE
       THEN /\ stack' = Pop
            /\ UNCHANGED <<log, created_component_types>>
       ELSE /\ log' = Append(log, [Call("list_component_types", t)
                                     EXCEPT !.found = (ctState[t] # "ABSENT")])
            /\ IF ctState[t] # "ABSENT"
               THEN /\ created_component_types' = created_component_types \cup {t}
                    /\ stack' = Pop
               ELSE /\ stack' = Goto("create")
                    /\ UNCHANGED created_component_types
    /\ UNCHANGED <<job, remote, created_entities, pc, idx, run>>

\* Lines 59-69: the cache, the empty id, then the list call.
CpcStart ==
    /\ InFrame("create_properties_component", "start")
    /\ LET t == Top.comp_id IN
       IF t \in created_component_types \/ t = NONE
       THEN /\ stack' = Pop
            /\ UNCHANGED <<log, created_component_types>>
       ELSE /\ log' = Append(log, [Call("list_component_types", t)
                                     EXCEPT !.found = (ctState[t] # "ABSENT")])
            /\ IF ctState[t] # "ABSENT"
               THEN /\ created_component_types' = created_component_types \cup {t}
                    /\ stack' = Pop
               ELSE /\ stack' = Goto("create")
                    /\ UNCHANGED created_component_types
    /\ UNCHANGED <<job, remote, created_entities, pc, idx, run>>

\* Lines 70-84.
CpcCreate ==
    /\ InFrame("create_properties_component", "create")
    /\ ctState' = [ctState EXCEPT ![Top.comp_id] = "CREATING"]
    /\ log' = Append(log, Call("create_component_type", Top.comp_id))
    /\ stack' = Goto("wait")
    /\ UNCHANGED <<job, wsExists, bucketExists, entState, caches, pc, idx, run>>

\* Lines 85-89: wait_over polls get_component_type until it reports ACTIVE.
CpcWait ==
    /\ InFrame("create_properties_component", "wait")
    /\ wait_over(ctState[Top.comp_id], "ACTIVE")
    /\ log' = Append(log, [Call("get_component_type", Top.comp_id) EXCEPT !.found = TRUE])
    /\ created_component_types' = created_component_types \cup {Top.comp_id}
    /\ stack' = Pop
    /\ UNCHANGED <<job, remote, created_entities, pc, idx, run>>

\* --------------------------------------------------- entity_exists (125-138)
\* Variant: an entity still being provisioned is taken for a missing one.
get_entity_ActiveOnly(entity_id) == entState[entity_id] = "ACTIVE"

\* get_entity answers for an entity in any state; it raises for an absent one.
get_entity(entity_id) == entState[entity_id] # "ABSENT"

\* Variant: the call at line 131 always raises, so only the cache answers.
entity_exists_AlwaysRaises(entity_id) ==
    IF entity_id \in created_entities
    THEN [ret |-> TRUE, calls |-> <<>>, cache |-> created_entities]
    ELSE [ret |-> FALSE, calls |-> <<Call("get_entity", entity_id)>>,
          cache |-> created_entities]

\* Variant: the cache is not consulted (lines 127-128 left out).
entity_exists_NoCache(entity_id) ==
    IF entState[entity_id] # "ABSENT"
    THEN [ret |-> TRUE,
          calls |-> <<[Call("get_entity", entity_id) EXCEPT !.found = TRUE]>>,
          cache |-> created_entities \cup {entity_id}]
    ELSE [ret |-> FALSE,
          calls |-> <<Call("get_entity", entity_id)>>,
          cache |-> created_entities]

\* Variant: the except branch reports the entity as existing.
entity_exists_raised_ReturnsTrue(entity_id) ==
    [ret |-> TRUE, calls |-> <<Call("get_entity", entity_id)>>,
     cache |-> created_entities]

\* Lines 129-136 when get_entity raises, for whatever reason: the result is
\* False and the cache is left alone.
entity_exists_raised(entity_id) ==
    [ret |-> FALSE, calls |-> <<Call("get_entity", entity_id)>>,
     cache |-> created_entities]

\* Variant: the id is put in the cache whatever get_entity answered.
entity_exists_CachesMiss(entity_id) ==
    IF entity_id \in created_entities
    THEN [ret |-> TRUE, calls |-> <<>>, cache |-> created_entities]
    ELSE [ret |-> get_entity(entity_id),
          calls |-> <<[Call("get_entity", entity_id) EXCEPT !.found = get_entity(entity_id)]>>,
          cache |-> created_entities \cup {entity_id}]

\* The result of entity_exists: what it returns, the calls it issued and the
\* cache it leaves.
entity_exists(entity_id) ==
    IF entity_id \in created_entities
    THEN [ret |-> TRUE, calls |-> <<>>, cache |-> created_entities]
    ELSE IF get_entity(entity_id)
    THEN [ret |-> TRUE,
          calls |-> <<[Call("get_entity", entity_id) EXCEPT !.found = TRUE]>>,
          cache |-> created_entities \cup {entity_id}]
    ELSE entity_exists_raised(entity_id)

\* ------------------------------------------- get_parent_from_input (140-144)
\* The position of the first record with that entity_id; 0 stands for None.
get_parent_from_input(input_entities, parent_id) ==
    LET S == {i \in 1..Len(input_entities) : input_entities[i].entity_id = parent_id}
    IN  IF S = {} THEN 0 ELSE CHOOSE i \in S : \A j \in S : i <= j

\* ----------------------------------------------------- create_root (147-155)
create_root(root_id) == [entityId |-> root_id, parentEntityId |-> NONE]

\* ------------------------------------------------- populate_assets (112-123)
\* The payload built for record entity (a position of input) under comp_id;
\* the call of create_properties_component at line 113 is the caller's step.
populate_assets(entity, comp_id) == [owner |-> entity, componentTypeId |-> comp_id]

CpcFrame(comp_id) == [Frame("create_properties_component", "start") EXCEPT !.comp_id = comp_id]

EntityFrame(entity, comps, check_active) ==
    [Frame("create_iottwinmaker_entity", "exists") EXCEPT
        !.rec = entity, !.comps = comps, !.check_active = check_active,
        !.pre = Existing(entState), !.mark = Len(log)]

ApiFrame(comps, ntt, check_active) ==
    [Frame("create_entity_api", "create") EXCEPT
        !.comps = comps, !.ntt = ntt, !.check_active = check_active]

\* Nested calls of create_iottwinmaker_entity in progress.
Depth == Cardinality({i \in 1..Len(stack) : stack[i].fn = "create_iottwinmaker_entity"})

\* --------------------------------------- create_iottwinmaker_entity (158-192)
\* The check_active argument at line 179 (a parent record) and at line 182 (a
\* synthesized root).
\* Variant: a parent record is created without polling.
PARENT_CHECK_ACTIVE_Off == FALSE
PARENT_CHECK_ACTIVE == TRUE
\* Variant: the synthesized root is created without polling.
ROOT_CHECK_ACTIVE_Off == FALSE
ROOT_CHECK_ACTIVE == TRUE

\* Lines 168-170, for the result r of entity_exists.
ResolveExistsWith(r) ==
    /\ log' = log \o r.calls
    /\ created_entities' = r.cache
    /\ stack' = IF r.ret THEN Goto("return") ELSE Goto("populate")
    /\ UNCHANGED <<job, remote, created_component_types, pc, idx, run>>

ResolveExists ==
    /\ InFrame("create_iottwinmaker_entity", "exists")
    /\ ResolveExistsWith(entity_exists(input[Top.rec].entity_id))

\* The same when get_entity raises for another reason than a missing entity.
ResolveExistsError ==
    /\ InFrame("create_iottwinmaker_entity", "exists")
    /\ input[Top.rec].entity_id \notin created_entities
    /\ ResolveExistsWith(entity_exists_raised(input[Top.rec].entity_id))

\* Line 172, up to the call at line 113.
ResolvePopulate ==
    /\ InFrame("create_iottwinmaker_entity", "populate")
    /\ LET comp_id == input[Top.rec].component_type IN
       stack' = IF comp_id # NONE
                THEN PushOver("populated", CpcFrame(comp_id))
                ELSE Goto("parent")
    /\ UNCHANGED <<job, remote, caches, pc, idx, log, run>>

\* Line 172, from the return of create_properties_component on.
ResolvePopulated ==
    /\ InFrame("create_iottwinmaker_entity", "populated")
    /\ stack' = SetTop([Top EXCEPT
                    !.comps = populate_assets(Top.rec, input[Top.rec].component_type),
                    !.pc = "parent"])
    /\ UNCHANGED <<job, remote, caches, pc, idx, log, run>>

\* Variant: the parent is neither looked up nor created (lines 174-182 left out).
ResolveParent_Skipped ==
    /\ InFrame("create_iottwinmaker_entity", "parent")
    /\ stack' = Goto("create")
    /\ UNCHANGED <<job, remote, caches, pc, idx, log, run>>

\* Lines 175-182, for the result r of entity_exists(parent_id): the parent is
\* resolved or synthesized when it is missing.  A call nested deeper than the
\* interpreter allows ends the run.
ResolveParentWith(parent_id, r) ==
    LET parent == get_parent_from_input(input, parent_id) IN
    /\ log' = log \o r.calls
    /\ created_entities' = r.cache
    /\ IF r.ret
       THEN stack' = Goto("create") /\ pc' = pc
       ELSE IF parent # 0
       THEN IF Depth < MaxDepth
            THEN /\ stack' = PushOver("create", EntityFrame(parent, Top.comps, PARENT_CHECK_ACTIVE))
                 /\ pc' = pc
            ELSE stack' = <<>> /\ pc' = "failed"
       ELSE /\ stack' = PushOver("create",
                           ApiFrame(Top.comps, create_root(parent_id), ROOT_CHECK_ACTIVE))
            /\ pc' = pc

\* Lines 174-184.
ResolveParent ==
    /\ InFrame("create_iottwinmaker_entity", "parent")
    /\ LET parent_id == input[Top.rec].parent_entity_id IN
       IF parent_id = NONE
       THEN /\ stack' = Goto("create")
            /\ UNCHANGED <<log, created_entities, pc>>
       ELSE ResolveParentWith(parent_id, entity_exists(parent_id))
    /\ UNCHANGED <<job, remote, created_component_types, idx, run>>

\* The same when get_entity raises for another reason than a missing entity.
ResolveParentError ==
    /\ InFrame("create_iottwinmaker_entity", "parent")
    /\ LET parent_id == input[Top.rec].parent_entity_id IN
       /\ parent_id # NONE
       /\ parent_id \notin created_entities
       /\ ResolveParentWith(parent_id, entity_exists_raised(parent_id))
    /\ UNCHANGED <<job, remote, created_component_types, idx, run>>

\* Lines 184-192.
ResolveCreate ==
    /\ InFrame("create_iottwinmaker_entity", "create")
    /\ LET entity == input[Top.rec]
           parent_id == IF entity.parent_entity_id = NONE THEN "$ROOT"
                        ELSE entity.parent_entity_id
           ntt == [entityId |-> entity.entity_id, parentEntityId |-> parent_id]
       IN  stack' = PushOver("return",
                       [ApiFrame(Top.comps, ntt, Top.check_active) EXCEPT !.rec = Top.rec])
    /\ UNCHANGED <<job, remote, caches, pc, idx, log, run>>

ResolveReturn ==
    /\ InFrame("create_iottwinmaker_entity", "return")
    /\ stack' = Pop
    /\ UNCHANGED <<job, remote, caches, pc, idx, log, run>>

\* ------------------------------------------------ create_entity_api (195-207)
StateOf(id) == IF id \in Ids THEN entState[id] ELSE "ACTIVE"

\* Lines 196-202.  The service accepts an entity id once: a second
\* create_entity for it raises, which ends the run.
CreateEntity ==
    /\ InFrame("create_entity_api", "create")
    /\ LET ntt == Top.ntt
           comps == Top.comps
           call == [Call("create_entity", ntt.entityId) EXCEPT
                      !.parent = ntt.parentEntityId,
                      !.owner = IF Truthy(comps) THEN comps.owner ELSE 0,
                      !.ctype = IF Truthy(comps) THEN comps.componentTypeId ELSE NONE,
                      !.pstate = StateOf(ntt.parentEntityId),
                      !.rec = Top.rec,
                      !.waited = Top.check_active,
                      !.nested = (Top.rec = 0 \/ Depth >= 2),
                      !.cstate = IF Truthy(comps) /\ comps.componentTypeId \in CompIds
                                 THEN ctState[comps.componentTypeId] ELSE NONE]
       IN  /\ log' = Append(log, call)
           /\ IF entState[ntt.entityId] = "ABSENT"
              THEN /\ entState' = [entState EXCEPT ![ntt.entityId] = "CREATING"]
                   /\ stack' = IF Top.check_active THEN Goto("wait") ELSE Pop
                   /\ pc' = pc
              ELSE /\ stack' = <<>>
                   /\ pc' = "failed"
                   /\ UNCHANGED entState
    /\ UNCHANGED <<job, wsExists, bucketExists, ctState, caches, idx, run>>

\* Lines 203-207: wait_over polls get_entity until it reports ACTIVE.
WaitEntity ==
    /\ InFrame("create_entity_api", "wait")
    /\ wait_over(entState[Top.ntt.entityId], "ACTIVE")
    /\ log' = Append(log, [Call("wait_entity", Top.ntt.entityId) EXCEPT !.found = TRUE])
    /\ stack' = Pop
    /\ UNCHANGED <<job, remote, caches, pc, idx, run>>

\* ------------------------------- create_iottwinmaker_entities (215-225)
\* Line 224.
EnsureDefaultComponent ==
    /\ pc = "create_properties_component"
    /\ stack = <<>>
    /\ stack' = <<CpcFrame(defaultComp)>>
    /\ pc' = "process_records"
    /\ UNCHANGED <<job, remote, caches, idx, log, run>>

\* Variant: the loop ends after the first record.
NextRecord_FirstOnly ==
    /\ pc = "process_records"
    /\ stack = <<>>
    /\ IF idx <= Len(input) /\ idx <= 1
       THEN stack' = <<CpcFrame(defaultComp)>> /\ pc' = "record"
       ELSE stack' = stack /\ pc' = "done"
    /\ UNCHANGED <<job, remote, caches, idx, log, run>>

\* Lines 217-218: the next record, up to the call at line 113; the run is
\* over after the last one.
NextRecord ==
    /\ pc = "process_records"
    /\ stack = <<>>
    /\ IF idx <= Len(input)
       THEN stack' = <<CpcFrame(defaultComp)>> /\ pc' = "record"
       ELSE stack' = stack /\ pc' = "done"
    /\ UNCHANGED <<job, remote, caches, idx, log, run>>

\* Lines 218-220.
ResolveRecord ==
    /\ pc = "record"
    /\ stack = <<>>
    /\ stack' = <<EntityFrame(idx, populate_assets(idx, defaultComp), FALSE)>>
    /\ idx' = idx + 1
    /\ pc' = "process_records"
    /\ UNCHANGED <<job, remote, caches, log, run>>

\* The same job is imported again by a new process: the caches start empty.
NextRun ==
    /\ pc = "done"
    /\ run < MaxRuns
    /\ run' = run + 1
    /\ pc' = "create_workspace"
    /\ idx' = 1
    /\ log' = <<>>
    /\ created_component_types' = {}
    /\ created_entities' = {}
    /\ initial' = Existing(entState)
    /\ UNCHANGED <<input, defaultComp, remote, stack>>

\* ------------------------------------------------------ the remote service
ActivateEntity ==
    \E e \in Ids :
        /\ entState[e] = "CREATING"
        /\ entState' = [entState EXCEPT ![e] = "ACTIVE"]
        /\ UNCHANGED <<job, wsExists, bucketExists, ctState, caches, pc, idx, stack, log, run>>

ActivateComponentType ==
    \E t \in CompIds :
        /\ ctState[t] = "CREATING"
        /\ ctState' = [ctState EXCEPT ![t] = "ACTIVE"]
        /\ UNCHANGED <<job, wsExists, bucketExists, entState, caches, pc, idx, stack, log, run>>

Next ==
    \/ ListWorkspaces
    \/ CreateBucket
    \/ WaitBucket
    \/ CreateWorkspace
    \/ EnsureDefaultComponent
    \/ CpcStart
    \/ CpcCreate
    \/ CpcWait
    \/ NextRecord
    \/ ResolveRecord
    \/ ResolveExists
    \/ ResolvePopulate
    \/ ResolvePopulated
    \/ ResolveParent
    \/ ResolveCreate
    \/ ResolveReturn
    \/ CreateEntity
    \/ WaitEntity
    \/ NextRun
    \/ ActivateEntity
    \/ ActivateComponentType

Spec == Init /\ [][Next]_vars

\* The runs in which get_entity may also raise for an entity that exists.
NextFaults ==
    \/ Next
    \/ ResolveExistsError
    \/ ResolveParentError

SpecFaults == Init /\ [][NextFaults]_vars

\* The inputs of Spec and the chain scenario.
InitScenarios == Init \/ InitChain
SpecScenarios == InitScenarios /\ [][Next]_vars

\* Every remote call returns, so the program takes its next step whenever it
\* has one, and every resource that is being created becomes ACTIVE.
Fairness ==
    /\ WF_vars(Next)
    /\ WF_vars(ActivateEntity)
    /\ WF_vars(ActivateComponentType)

LiveSpec == Spec /\ Fairness

\* The inputs of Spec and the jobs with a duplicated entity id.
SpecDuplicates == (Init \/ InitDuplicates) /\ [][Next]_vars

\* =================================================================== claims
Calls(op) == {k \in 1..Len(log) : log[k].op = op}
CallsFor(op, id) == {k \in Calls(op) : log[k].id = id}
Creates == Calls("create_entity")
\* create_entity calls issued for a record under a parent entity.
DependentCreates == {k \in Creates : log[k].parent \in Ids}

\* C1: ancestors before descendants.  Whenever create_entity is issued for a
\* record with parent_entity_id P, entity P (a record's entity or a synthetic
\* root) exists in the remote service at that moment.
C1_AncestorsBeforeDescendants ==
    \A k \in DependentCreates : log[k].pstate # "ABSENT"

\* A record was created under a parent that this run created before it.
C1_Witness ==
    \E k \in DependentCreates : \E j \in CallsFor("create_entity", log[k].parent) :
        j < k /\ log[k].parent \notin initial

\* C2: idempotence.  A run of the same input that follows a completed run
\* issues no create_entity, no create_component_type and no create_workspace
\* call.
CreationOps == {"create_entity", "create_component_type", "create_workspace"}

C2_Idempotence ==
    run > 1 => \A k \in 1..Len(log) : log[k].op \notin CreationOps

\* The second run is over, after the first one created two entities and a
\* component type, and its existence checks and its list call hit.
C2_Witness ==
    /\ run = 2
    /\ pc = "done"
    /\ Cardinality(NamedIds(input) \ initial) = 0
    /\ Cardinality(NamedIds(input)) > MaxPreexisting
    /\ \E k \in Calls("get_entity") : log[k].found
    /\ \E k \in Calls("list_component_types") : log[k].found

\* C3: whenever create_entity is issued for an entity under a parent entity,
\* that parent is in the ACTIVE state.
C3_ParentActiveAtCreate ==
    \A k \in DependentCreates : log[k].pstate = "ACTIVE"

\* C4: whenever create_entity is issued with a payload naming component type
\* T, T is in the ACTIVE state.
C4_ComponentTypeActiveAtCreate ==
    \A k \in Creates : log[k].ctype \in CompIds => log[k].cstate = "ACTIVE"

\* C5: a run issues at most one create_entity call per entity id, and each
\* create_entity call follows an existence check of the same id, in the same
\* run, that reported it missing.
C5_CreateOncePerId ==
    /\ \A j, k \in Creates : log[j].id = log[k].id => j = k
    /\ \A k \in Creates : \E j \in CallsFor("get_entity", log[k].id) :
           j < k /\ ~log[j].found

\* One id, the parent of two records that were both created, was created once.
C5_Witness ==
    \E j \in Creates : \E k, l \in DependentCreates :
        k # l /\ log[k].parent = log[j].id /\ log[l].parent = log[j].id

\* The ids on the parent_entity_id chain of the input from id upwards, as
\* get_parent_from_input resolves it, ending at the first id in stop, at an id
\* without a record or at a record without a parent.
RECURSIVE ChainFrom(_, _, _)
ChainFrom(id, stop, fuel) ==
    LET p == get_parent_from_input(input, id) IN
    IF id \in stop \/ fuel = 0 \/ p = 0 THEN {id}
    ELSE IF input[p].parent_entity_id = NONE THEN {id}
    ELSE {id} \cup ChainFrom(input[p].parent_entity_id, stop, fuel - 1)

\* The same for the record at position rec, itself included.
ChainOf(rec, stop) ==
    LET e == input[rec] IN
    IF e.entity_id \in stop \/ e.parent_entity_id = NONE THEN {e.entity_id}
    ELSE {e.entity_id} \cup ChainFrom(e.parent_entity_id, stop, Cardinality(Ids))

Returning == InFrame("create_iottwinmaker_entity", "return")

\* C6, as stated: when create_iottwinmaker_entity returns, the record's entity
\* and every ancestor on its parent_entity_id chain up to the tree root exist
\* in the remote service.
C6_WholeChainExists ==
    Returning => ChainOf(Top.rec, {}) \subseteq Existing(entState)

\* C6, amended: when create_iottwinmaker_entity returns, the record's entity
\* and its ancestors up to and including the nearest one that existed when the
\* call was entered (up to the tree root when none did) exist in the remote
\* service, and the missing ones were created by this run, each after its
\* parent.
C6_ChainToNearestExisting ==
    Returning =>
        LET chain == ChainOf(Top.rec, Top.pre) IN
        /\ chain \subseteq Existing(entState)
        /\ \A x \in chain \ Top.pre : \E k \in CallsFor("create_entity", x) :
               log[k].parent \in Ids \ Top.pre =>
                   \E j \in CallsFor("create_entity", log[k].parent) : j < k

\* A call returns after creating the record's entity and an ancestor of it,
\* below an ancestor that existed before.
C6_Witness ==
    /\ Returning
    /\ Cardinality(ChainOf(Top.rec, Top.pre) \ Top.pre) >= 2
    /\ ChainOf(Top.rec, Top.pre) \cap Top.pre # {}

\* C7: cache monotonicity.  Within a run no entry leaves created_entities or
\* created_component_types, no get_entity call is issued for an id in
\* created_entities and no list_component_types call for an id in
\* created_component_types.
Issued == {k \in 1..Len(log') : k > Len(log)}

C7_CacheMonotonicity ==
    [][run' = run =>
        /\ created_entities \subseteq created_entities'
        /\ created_component_types \subseteq created_component_types'
        /\ \A k \in Issued :
            /\ log'[k].op \in {"get_entity", "wait_entity"}
                   => log'[k].id \notin created_entities
            /\ log'[k].op = "list_component_types"
                   => log'[k].id \notin created_component_types]_vars

\* A cached entity id was needed as the parent of two records and looked up
\* once; a cached component type was needed twice and listed once.
C7_Witness ==
    /\ \E p \in created_entities :
          /\ Cardinality({k \in DependentCreates : log[k].parent = p}) = 2
          /\ Cardinality(CallsFor("get_entity", p)) = 1
    /\ \E t \in created_component_types :
          /\ Cardinality({k \in Creates : log[k].ctype = t}) = 2
          /\ Cardinality(CallsFor("list_component_types", t)) = 1

\* C8: missing-parent synthesis.  When a record is created whose
\* parent_entity_id P has no record in the input, the run has issued exactly
\* one create_entity call for P if P was missing when the run began (none if
\* P existed), as a root placeholder, whatever the number of records under P,
\* and has polled P until ACTIVE between that call and the record's.
Dangling(k) == k \in DependentCreates /\ get_parent_from_input(input, log[k].parent) = 0

C8_MissingParentSynthesis ==
    \A k \in Creates : Dangling(k) =>
        LET P == log[k].parent IN
        /\ Cardinality(CallsFor("create_entity", P)) = IF P \in initial THEN 0 ELSE 1
        /\ P \notin initial =>
              \E j \in CallsFor("create_entity", P) : \E w \in CallsFor("wait_entity", P) :
                  j < w /\ w < k /\ log[j].parent = NONE /\ log[k].pstate = "ACTIVE"

\* Two records were created under the same placeholder, which this run made.
C8_Witness ==
    \E k, l \in Creates :
        /\ k # l /\ Dangling(k) /\ Dangling(l)
        /\ log[k].parent = log[l].parent
        /\ log[k].parent \notin initial

\* C9: component payload ownership.  The payload built for a record is sent
\* only in the create_entity call of that record's own entity.
C9_PayloadOwnership ==
    \A k \in Creates : log[k].owner # 0 => input[log[k].owner].entity_id = log[k].id

\* C10: orchestration order.  Every entity operation follows the call that
\* ensured the workspace (list_workspaces finding it, or create_workspace),
\* and, when the job names a default component type, a later call that ensured
\* it (list_component_types finding it, or the poll seeing it ACTIVE); and
\* while a record of the input is resolved, the records before it exist.
EntityOps == {"get_entity", "create_entity", "wait_entity"}
WorkspaceEnsured(k) ==
    \/ log[k].op = "list_workspaces" /\ log[k].found
    \/ log[k].op = "create_workspace"
DefaultComponentEnsured(k) ==
    /\ log[k].op \in {"list_component_types", "get_component_type"}
    /\ log[k].id = defaultComp
    /\ log[k].found

C10_OrchestrationOrder ==
    /\ \A k \in 1..Len(log) : log[k].op \in EntityOps =>
          \E w \in 1..(k - 1) :
              /\ WorkspaceEnsured(w)
              /\ defaultComp # NONE =>
                    \E c \in (w + 1)..(k - 1) : DefaultComponentEnsured(c)
    /\ (Running /\ Len(stack) > 0 /\ stack[1].fn = "create_iottwinmaker_entity") =>
          /\ stack[1].rec = idx - 1
          /\ \A i \in 1..(idx - 2) : input[i].entity_id \in Existing(entState)

\* The workspace was created, the default component type created and polled,
\* and then an entity was created.
C10_Witness ==
    /\ Calls("create_workspace") # {}
    /\ defaultComp # NONE
    /\ CallsFor("get_component_type", defaultComp) # {}
    /\ Creates # {}

\* C11: re-run after partial failure.  A run issues create_entity for no id
\* that existed when it began; a completed run has issued it for exactly the
\* entity ids of the input that did not exist; for the chain c->b->a with only
\* b existing the completed run has created a and c and nothing else.
InputIds == {input[i].entity_id : i \in 1..Len(input)}
CreatedIds == {log[k].id : k \in Creates}
IsChain == input \in ChainInputs

C11_CreatesExactlyTheMissing ==
    /\ CreatedIds \cap initial = {}
    /\ pc = "done" => CreatedIds \cap InputIds = InputIds \ initial
    /\ (pc = "done" /\ IsChain /\ initial = {"b"}) => CreatedIds = {"a", "c"}

\* The chain was imported into a workspace that held only b, to the end.
C11_Witness ==
    /\ pc = "done" /\ run = 1
    /\ IsChain /\ initial = {"b"}
    /\ CreatedIds = {"a", "c"}

\* The parent_entity_id that the input gives id: that of the record
\* get_parent_from_input finds for it.
ParentOf(id) ==
    LET p == get_parent_from_input(input, id) IN
    IF p = 0 THEN NONE ELSE input[p].parent_entity_id

\* The ids above id on its chain.
RECURSIVE Above(_, _)
Above(id, fuel) ==
    IF fuel = 0 \/ ParentOf(id) = NONE THEN {}
    ELSE {ParentOf(id)} \cup Above(ParentOf(id), fuel - 1)

OnCycle(id) == id \in Above(id, Cardinality(Ids))
CycleOf(id) == Above(id, Cardinality(Ids))

\* C12, as stated: for an input whose parent chain contains a cycle, the run
\* never completes and never issues create_entity for a record on the cycle.
C12_CycleNeverCompletes ==
    \A x \in Ids : OnCycle(x) => pc # "done" /\ CallsFor("create_entity", x) = {}

\* C12, amended: the same, for a cycle none of whose entities existed when
\* the run began.
C12_AbsentCycleNeverCompletes ==
    \A x \in Ids : (OnCycle(x) /\ CycleOf(x) \cap initial = {}) =>
        pc # "done" /\ CallsFor("create_entity", x) = {}

\* The resolution of a record on a cycle of two absent entities went round
\* the cycle until the nesting limit ended the run.
C12_Witness ==
    /\ pc = "failed"
    /\ \E x \in Ids :
          /\ OnCycle(x)
          /\ CycleOf(x) \cap initial = {}
          /\ Cardinality(CycleOf(x)) = 2
          /\ Cardinality(CallsFor("get_entity", x)) >= MaxDepth

\* C13: component type call budget.  In a run, for each component type id:
\* at most one list_component_types call, exactly one once the id is cached
\* or created; at most one create_component_type call, issued only after the
\* list call did not find the id; at most one poll, after the create call;
\* and the id is cached only after the list call found it or the poll saw it
\* ACTIVE.
C13_ComponentTypeBudget ==
    \A t \in CompIds :
        LET lists == CallsFor("list_component_types", t)
            creates == CallsFor("create_component_type", t)
            polls == CallsFor("get_component_type", t)
        IN  /\ Cardinality(lists) <= 1
            /\ Cardinality(creates) <= 1
            /\ Cardinality(polls) <= 1
            /\ (t \in created_component_types \/ creates # {}) => Cardinality(lists) = 1
            /\ \A c \in creates : \E l \in lists : l < c /\ ~log[l].found
            /\ \A q \in polls : \E c \in creates : c < q
            /\ t \in created_component_types =>
                  \/ \E l \in lists : log[l].found
                  \/ \E q \in polls : log[q].found

\* A component type was needed for two created entities after being listed,
\* created and polled once.
C13_Witness ==
    \E t \in CompIds :
        /\ Cardinality({k \in Creates : log[k].ctype = t}) = 2
        /\ Cardinality(CallsFor("list_component_types", t)) = 1
        /\ Cardinality(CallsFor("create_component_type", t)) = 1
        /\ Cardinality(CallsFor("get_component_type", t)) = 1
        /\ t \in created_component_types

\* C14: wait policy.  A create_entity call issued while resolving the parent
\* of another record (for a parent record or a synthesized root) is followed at
\* once by the poll of that entity, which ends when it is ACTIVE; one issued
\* for a record of the top-level loop is never polled.  The chain c->b->a on
\* an empty workspace is created in the order a, b, c, with a and b polled and
\* c not.
Polled(k) ==
    IF k < Len(log)
    THEN log[k + 1].op = "wait_entity" /\ log[k + 1].id = log[k].id
    ELSE \/ pc = "failed"
         \/ InFrame("create_entity_api", "wait") /\ Top.ntt.entityId = log[k].id

C14_WaitPolicy ==
    /\ \A k \in Creates :
          IF log[k].nested
          THEN log[k].waited /\ Polled(k)
          ELSE ~log[k].waited /\ CallsFor("wait_entity", log[k].id) = {}
    /\ (pc = "done" /\ IsChain /\ initial = {}) =>
          \E k1, k2, k3 \in Creates :
              /\ Creates = {k1, k2, k3}
              /\ k1 < k2 /\ k2 < k3
              /\ log[k1].id = "a" /\ log[k2].id = "b" /\ log[k3].id = "c"
              /\ log[k1].waited /\ log[k2].waited /\ ~log[k3].waited
              /\ CallsFor("wait_entity", "a") # {}
              /\ CallsFor("wait_entity", "b") # {}

\* The chain was imported into an empty workspace, to the end.
C14_Witness ==
    /\ pc = "done" /\ run = 1
    /\ IsChain /\ initial = {}
    /\ Cardinality(Creates) = 3
    /\ Cardinality(Calls("wait_entity")) = 2

\* C15: resolving a record whose entity exists is a no-op.  A call of
\* create_iottwinmaker_entity for a record whose entity existed when the call
\* was entered goes from the existence check straight to its return; by then
\* it has issued at most the one get_entity call of that check, and the
\* entities of the service are those it held at entry, whether the record's
\* parent is among them or not.
SelfOf(f) == input[f.rec].entity_id

C15_ExistingIsNoOp ==
    /\ \A i \in 1..Len(stack) :
          (stack[i].fn = "create_iottwinmaker_entity" /\ SelfOf(stack[i]) \in stack[i].pre)
              => stack[i].pc \in {"exists", "return"}
    /\ (Returning /\ SelfOf(Top) \in Top.pre) =>
          /\ Existing(entState) = Top.pre
          /\ Len(log) <= Top.mark + 1
          /\ \A k \in (Top.mark + 1)..Len(log) :
                log[k].op = "get_entity" /\ log[k].id = SelfOf(Top) /\ log[k].found

\* The call for an existing record returns while the record's parent does not
\* exist.
C15_Witness ==
    /\ Returning
    /\ SelfOf(Top) \in Top.pre
    /\ input[Top.rec].parent_entity_id \in Ids \ Existing(entState)
    /\ Len(log) = Top.mark + 1

\* ------------------------------------------------------------------ C16
\* The existence checks of the run that failed: get_entity raised, for a
\* missing entity or for any other reason.
FailedChecks == {k \in 1..Len(log) : log[k].op = "get_entity" /\ ~log[k].found}

CreatedAfter(k) ==
    \E j \in (k + 1)..Len(log) : log[j].op = "create_entity" /\ log[j].id = log[k].id

\* A call on the stack is still on its way to the create_entity of id: the
\* resolution of a record of that id, past its existence check or just
\* entered on the check k, or the creation of a root of that id.
CreatePending(k) ==
    \E i \in 1..Len(stack) :
        \/ /\ stack[i].fn = "create_iottwinmaker_entity"
           /\ SelfOf(stack[i]) = log[k].id
           /\ \/ stack[i].pc \in {"populate", "populated", "parent", "create"}
              \/ stack[i].pc = "exists" /\ k = Len(log)
        \/ /\ stack[i].fn = "create_entity_api"
           /\ stack[i].ntt.entityId = log[k].id
           /\ stack[i].pc = "create"

\* The failed check k was the check of a parent that has a record: the
\* resolution of that record checked the same id again straight away.
Rechecked(k) ==
    /\ k < Len(log)
    /\ log[k + 1].op = "get_entity"
    /\ log[k + 1].id = log[k].id
    /\ \E i \in 1..Len(input) : input[i].entity_id = log[k].id

\* C16, as stated: after an existence check that failed for any reason the
\* resolver goes on to issue create_entity for that id: unless the run has
\* ended with an error, the call is in the log or a call on the stack is on
\* its way to it.
C16_FailedCheckLeadsToCreate ==
    \A k \in FailedChecks : CreatedAfter(k) \/ CreatePending(k) \/ pc = "failed"

\* What a step that issues a failed existence check does: the cache is left
\* alone and the caller continues as for a missing entity, a record to its
\* payload, a parent to its resolution or to its creation as a root.
FailedCheckStep ==
    \A k \in Issued :
        (log'[k].op = "get_entity" /\ ~log'[k].found) =>
            /\ created_entities' = created_entities
            /\ Top.pc = "exists" => stack' = Goto("populate")
            /\ Top.pc = "parent" =>
                  \/ pc' = "failed"
                  \/ /\ Len(stack') = Len(stack) + 1
                     /\ LET f == stack'[Len(stack')] IN
                        \/ f.fn = "create_iottwinmaker_entity" /\ f.pc = "exists"
                             /\ input[f.rec].entity_id = log'[k].id
                        \/ f.fn = "create_entity_api" /\ f.pc = "create"
                             /\ f.ntt.entityId = log'[k].id

\* C16, amended: an existence check that fails for any reason is treated as
\* "does not exist", also when the entity exists remotely: entity_exists
\* returns false and leaves created_entities unchanged, and the resolver
\* continues as for a missing entity.  After a failed check of a record's own
\* id, or of a parent id without a record, it goes on to issue create_entity
\* for that id; after a failed check of a parent id that has a record it
\* resolves that record, which checks the same id again, and only when that
\* check fails too is create_entity issued.
C16_FailedCheckMeansMissing ==
    /\ [](\A k \in FailedChecks :
            CreatedAfter(k) \/ CreatePending(k) \/ Rechecked(k) \/ pc = "failed")
    /\ [][FailedCheckStep]_vars

\* A check of an entity that existed before the run failed, and create_entity
\* was issued for it.
C16_Witness ==
    /\ Len(log) > 1
    /\ log[Len(log)].op = "create_entity"
    /\ log[Len(log)].id \in initial
    /\ \E k \in FailedChecks : log[k].id = log[Len(log)].id

\* ------------------------------------------------------------------ C17
OpsAt(op) == {k \in 1..Len(log) : log[k].op = op}

\* C17: in one run create_workspace is issued at most once, only after a
\* list_workspaces call that returned no workspace with the target id, and only
\* after the bucket was created and confirmed to exist, in this order; when
\* the listed workspaces contain the target id, neither create_bucket nor
\* create_workspace is issued.
C17_WorkspaceProvisioning ==
    /\ Cardinality(OpsAt("create_workspace")) <= 1
    /\ \A k \in OpsAt("create_workspace") :
          /\ bucketExists
          /\ \E l \in OpsAt("list_workspaces"), b \in OpsAt("create_bucket"),
                w \in OpsAt("bucket_exists") :
                l < b /\ b < w /\ w < k /\ ~log[l].found /\ log[w].found
    /\ \A l \in OpsAt("list_workspaces") :
          /\ log[l].found =>
                OpsAt("create_bucket") \cup OpsAt("create_workspace") = {}
          /\ \A k \in OpsAt("create_bucket") : l < k

\* The workspace was missing and the run has created it and gone on.
C17_Witness ==
    /\ OpsAt("create_workspace") # {}
    /\ pc = "process_records"

\* ------------------------------------------------------------------ C18
Occurrences(id) == {i \in 1..Len(input) : input[i].entity_id = id}
Duplicated == {id \in Ids : Cardinality(Occurrences(id)) > 1}
FirstOccurrence(id) == CHOOSE i \in Occurrences(id) : \A j \in Occurrences(id) : i <= j

\* The parentEntityId sent for a record (lines 186-190).
ParentSent(entity) ==
    IF entity.parent_entity_id = NONE THEN "$ROOT" ELSE entity.parent_entity_id

\* C18: for an entity id that occurs more than once in the input, at most one
\* create_entity call is issued, and it is made from the first record of that
\* id, whether the top-level loop or a parent lookup reached it: the call
\* carries that record's parent and a component payload built from that
\* record.
C18_FirstOccurrenceWins ==
    \A id \in Duplicated :
        /\ Cardinality(CallsFor("create_entity", id)) <= 1
        /\ \A k \in CallsFor("create_entity", id) :
              /\ log[k].rec = FirstOccurrence(id)
              /\ log[k].parent = ParentSent(input[FirstOccurrence(id)])
              /\ log[k].owner = FirstOccurrence(id)

\* ------------------------------------------------------------------ C19
\* The parent edges of the input, over all its records, and what they reach.
ParentsIn(id) ==
    {input[i].parent_entity_id : i \in Occurrences(id)} \ {NONE}

RECURSIVE Ancestors(_, _)
Ancestors(id, fuel) ==
    IF fuel = 0 THEN {}
    ELSE ParentsIn(id) \cup UNION {Ancestors(p, fuel - 1) : p \in ParentsIn(id)}

Acyclic == \A id \in Ids : id \notin Ancestors(id, Cardinality(Ids))

Succeeded(op, id) == {k \in CallsFor(op, id) : log[k].found}

\* The call that created id in this run: the service accepts an id once, so
\* it is the first create_entity for an id that did not exist before the run.
CreatedAt(id) ==
    {k \in CallsFor("create_entity", id) :
        id \notin initial /\ \A j \in CallsFor("create_entity", id) : k <= j}

\* What the caches hold is true of the remote service and of the log.
CachesSound ==
    /\ \A id \in created_entities :
          /\ Succeeded("get_entity", id) # {}
          /\ entState[id] # "ABSENT"
          /\ \A k \in CreatedAt(id) :
                \E j \in Succeeded("get_entity", id) : k < j
    /\ \A t \in created_component_types :
          /\ Succeeded("list_component_types", t) \cup Succeeded("get_component_type", t) # {}
          /\ ctState[t] # "ABSENT"

\* C20: cache soundness.  Each id in created_entities is an entity for which a
\* get_entity call of this run succeeded, and it exists remotely; each id in
\* created_component_types was found by the list call or seen ACTIVE by the
\* poll of this run, and is among the workspace's component types; a step
\* that issues create_entity adds nothing to created_entities, so an entity
\* created in this run is in the cache only after a later successful check.
C20_CacheSoundness ==
    /\ []CachesSound
    /\ [][(\E k \in Issued : log'[k].op = "create_entity")
            => created_entities' = created_entities]_vars

\* An entity created in this run is in the cache: a later record named it as
\* its parent and the check found it.
C20_Witness ==
    \E id \in created_entities \ initial : CallsFor("create_entity", id) # {}

====
